---------------------------- MODULE Spec2Model ----------------------------
(***************************************************************************)
(* A model of the two components of quas-utils that carry control flow:    *)
(*   - the retry decorator (quas_utils/decorators/retry.py), and           *)
(*   - generate_slug       (quas_utils/misc/__init__.py).                  *)
(* The two share no state; each has its own specification over the same    *)
(* variables, the other component's variables staying at their initial     *)
(* values.                                                                 *)
(***************************************************************************)
EXTENDS Integers, Sequences, FiniteSets, TLC

VARIABLES
    \* ---- retry decorator ----
    rpc,          \* where the decorator/wrapper is: "new", "config_error",
                  \* "decorated", "try", "failed", "returned", "raised"
    retries,      \* argument `retries` of retry(...)
    delay,        \* argument `delay` of retry(...), in whole time units
    script,       \* the decorated function: script[i] is what its i-th
                  \* invocation within one wrapper call does
    attempt,      \* loop variable `attempt` of wrapper
    last_error,   \* local `last_error` of wrapper
    invoked,      \* how many times func(*args, **kwargs) was entered in this call
    result,       \* what the wrapper call returned or raised
    hist,         \* the events of this call, in order: log, op, sleep
    loggerRaises, \* whether the installed logging handlers can raise
    \* ---- generate_slug ----
    store,        \* the records of the model's table: [id, name, slug]
    spc,          \* per writer: "idle", "loop", "returned", "exhausted",
                  \* "config_error", "persisted"
    args,         \* per writer: the arguments of its generate_slug call
    loc,          \* per writer: the locals base_slug, slug, timestamp, counter, is_obj
    queries,      \* per writer: the oracle queries of its call, in order
    seen,         \* per writer: the store as it was at its latest query
    ret           \* per writer: the slug its call returned

retryVars == <<rpc, retries, delay, script, attempt, last_error, invoked,
               result, hist, loggerRaises>>
slugVars  == <<store, spc, args, loc, queries, seen, ret>>
vars      == <<retryVars, slugVars>>

(***************************************************************************)
(* Bounds of the model.                                                    *)
(***************************************************************************)
MaxRetries == 3
MaxDelay == 2
MaxAttemptsArg == 2

(***************************************************************************)
(*                          THE RETRY DECORATOR                            *)
(***************************************************************************)

\* The classes named by the first except clause of wrapper.
DbErrorClasses == {"OperationalError", "DataError", "DatabaseError"}

\* The errors an operation can raise: the classes above and any other class
\* derived from Exception (in Python every error is; what is not, such as
\* KeyboardInterrupt or SystemExit, is a request to stop and no error).
ErrorClasses == DbErrorClasses \cup {"Exception"}

\* What one invocation of the wrapped operation can do.
OpOutcomes == {"ok"} \cup ErrorClasses

NoError == [src |-> "none", cls |-> "none", at |-> 0]
NoResult == [kind |-> "none", src |-> "none", cls |-> "none", at |-> 0]

\* The error raised by the n-th invocation of the operation.
OpError(cls, n) == [src |-> "op", cls |-> cls, at |-> n]
\* The error raised by a logging call made during attempt a.
LoggerError(a) == [src |-> "logger", cls |-> "Exception", at |-> a]
\* The value returned by the n-th invocation of the operation.
OpValue(n) == [kind |-> "value", src |-> "op", cls |-> "ok", at |-> n]
Raised(err) == [kind |-> "error", src |-> err.src, cls |-> err.cls, at |-> err.at]

Event(ev, a, what, dur) == [ev |-> ev, at |-> a, what |-> what, dur |-> dur]

\* `if retries < 1 or delay <= 0: raise ValueError(...)`
ConfigInvalid_DelayZeroAccepted(r, d) == r < 1 \/ d < 0
ConfigInvalid(r, d) == r < 1 \/ d <= 0

\* Which except clause of wrapper catches an error of class cls.
ExceptClause_DbOnly(cls) ==
    IF cls \in DbErrorClasses THEN "DB error" ELSE "uncaught"
ExceptClause(cls) ==
    IF cls \in DbErrorClasses THEN "DB error"
    ELSE IF cls \in ErrorClasses THEN "Error"
    ELSE "uncaught"

\* `if attempt < retries:` guarding sleep(delay)
MoreAttemptsRemain_Inclusive(a, r) == a <= r
MoreAttemptsRemain_OffByOne(a, r) == a + 1 < r
MoreAttemptsRemain(a, r) == a < r

\* The argument of sleep(...): the fixed delay, whatever the attempt.
SleepDuration(d, a) == d

\* Whether a logging.info call may raise: never with handlers that follow
\* logging.Handler's contract, possibly with one that does not.
LogOutcomes == IF loggerRaises THEN BOOLEAN ELSE {FALSE}

\* retry(retries, delay)(func): retry validates and, when valid, yields the
\* decorator, which wraps func; with invalid arguments nothing is decorated.
Construct(r, d, func) ==
    /\ rpc = "new"
    /\ retries' = r
    /\ delay' = d
    /\ IF ConfigInvalid(r, d)
       THEN rpc' = "config_error" /\ script' = script
       ELSE rpc' = "decorated" /\ script' = func
    /\ UNCHANGED <<attempt, last_error, invoked, result, hist,
                   loggerRaises, slugVars>>

\* wrapper(*args, **kwargs) is entered: last_error = None, attempt = 1.
\* Each call starts afresh, whatever the previous call did.
Invoke ==
    /\ rpc \in {"decorated", "returned", "raised"}
    /\ attempt' = 1
    /\ last_error' = NoError
    /\ invoked' = 0
    /\ result' = NoResult
    /\ hist' = <<>>
    /\ rpc' = "try"
    /\ UNCHANGED <<retries, delay, script, loggerRaises, slugVars>>

\* The handler of an except clause: record the error, log it.  A logging
\* call that raises inside the handler leaves wrapper with that error.
Handle(err, clause, h, logFails) ==
    /\ last_error' = err
    /\ IF logFails
       THEN /\ hist' = Append(h, Event("logfail", attempt, clause, 0))
            /\ result' = Raised(LoggerError(attempt))
            /\ rpc' = "raised"
       ELSE /\ hist' = Append(h, Event("log", attempt, clause, 0))
            /\ result' = result
            /\ rpc' = "failed"

\* One pass through the try statement of the loop body.
Attempt ==
    /\ rpc = "try"
    /\ \E runLogFails \in LogOutcomes, errLogFails \in LogOutcomes :
         IF runLogFails
         THEN \* logging.info("Running ...") raised inside the try block:
              \* func is not reached, the error is caught as any Exception
              /\ invoked' = invoked
              /\ Handle(LoggerError(attempt), ExceptClause("Exception"),
                        Append(hist, Event("logfail", attempt, "Running", 0)),
                        errLogFails)
         ELSE LET n == invoked + 1
                  out == script[n]
                  h == Append(Append(hist, Event("log", attempt, "Running", 0)),
                              Event("op", attempt, out, 0))
              IN /\ invoked' = n
                 /\ IF out = "ok"
                    THEN /\ result' = OpValue(n)
                         /\ rpc' = "returned"
                         /\ hist' = h
                         /\ last_error' = last_error
                    ELSE IF ExceptClause(out) = "uncaught"
                    THEN /\ result' = Raised(OpError(out, n))
                         /\ rpc' = "raised"
                         /\ hist' = h
                         /\ last_error' = last_error
                    ELSE Handle(OpError(out, n), ExceptClause(out), h, errLogFails)
    /\ UNCHANGED <<retries, delay, script, attempt, loggerRaises, slugVars>>

\* `if attempt < retries: sleep(delay)` and the next iteration of the loop.
Sleep ==
    /\ rpc = "failed"
    /\ MoreAttemptsRemain(attempt, retries)
    /\ hist' = Append(hist, Event("sleep", attempt, "sleep",
                                  SleepDuration(delay, attempt)))
    /\ IF attempt + 1 \in 1..retries
       THEN /\ attempt' = attempt + 1
            /\ rpc' = "try"
            /\ result' = result
       ELSE \* the range is exhausted: `raise last_error`
            /\ attempt' = attempt
            /\ rpc' = "raised"
            /\ result' = Raised(last_error)
    /\ UNCHANGED <<retries, delay, script, last_error, invoked, loggerRaises,
                   slugVars>>

\* The loop ends after the last attempt: `raise last_error`.
Propagate ==
    /\ rpc = "failed"
    /\ ~MoreAttemptsRemain(attempt, retries)
    /\ IF attempt + 1 \in 1..retries
       THEN /\ attempt' = attempt + 1
            /\ rpc' = "try"
            /\ result' = result
       ELSE /\ attempt' = attempt
            /\ rpc' = "raised"
            /\ result' = Raised(last_error)
    /\ UNCHANGED <<retries, delay, script, last_error, invoked, hist,
                   loggerRaises, slugVars>>


RetryStart ==
    /\ rpc = "new"
    /\ retries = 0
    /\ delay = 0
    /\ script = <<>>
    /\ attempt = 0
    /\ last_error = NoError
    /\ invoked = 0
    /\ result = NoResult
    /\ hist = <<>>

RetryNext ==
    \/ \E r \in 0..MaxRetries, d \in -1..MaxDelay :
         \E func \in [1..r -> OpOutcomes] : Construct(r, d, func)
    \/ Invoke
    \/ Attempt
    \/ Sleep
    \/ Propagate

(***************************************************************************)
(*                             GENERATE_SLUG                               *)
(***************************************************************************)

Writers == {"w1", "w2"}

\* Names given to generate_slug, and what slugify (python-slugify) makes of them.
Names == {"Hello, World!", "hello world", "Q&A"}
slugify(name) ==
    CASE name = "Hello, World!" -> "hello-world"
      [] name = "hello world"   -> "hello-world"
      [] name = "Q&A"           -> "q-a"
      [] OTHER                  -> ""

\* generate_random_string: `length` random characters, after "prefix-" if a
\* prefix is given.  RandomPool stands for what random.choice can produce.
RandomPool == {"aZ3k9", "Qx07b", "k9"}
SuffixLength == 5
RandomParts(length) == {s \in RandomPool : Len(s) = length}
generate_random_string(random_part, prefix) ==
    IF prefix # "" THEN prefix \o "-" \o random_part ELSE random_part

\* str(int(time.time() * 1000)) at the moments calls can start.
Clock == {"1730712345678"}

NoObj == [id |-> 0, name |-> "", slug |-> ""]
NoSlug == "<none>"

\* `slug = base_slug`: the first candidate.
FirstCandidate_Stamped(base_slug, timestamp) ==
    IF timestamp # "" THEN base_slug \o "-" \o timestamp ELSE base_slug
FirstCandidate(base_slug, timestamp) == base_slug

\* `slug = f"{base_slug}-{suffix}"`, then `slug = f"{slug}-{timestamp}"`.
Candidate(base_slug, suffix, timestamp, add_timestamp) ==
    LET s == base_slug \o "-" \o suffix
    IN IF add_timestamp THEN s \o "-" \o timestamp ELSE s

\* model.query.filter_by(slug=slug).first(): a record, or None.
FilterBySlug_ByName(st, slug) == {r \in st : r.name = slug}
FilterBySlug(st, slug) == {r \in st : r.slug = slug}
IsObj(st, slug) == FilterBySlug(st, slug) # {}

\* `if existing_obj: if existing_obj.name == name:`
ShortCircuits_SlugCompared(existing_obj, name) ==
    existing_obj # NoObj /\ existing_obj.slug = name
ShortCircuits(existing_obj, name) ==
    existing_obj # NoObj /\ existing_obj.name = name

\* `if counter > max_attempts: raise ValueError(...)`
Exhausted_Inclusive(counter, max_attempts) == counter >= max_attempts
Exhausted(counter, max_attempts) == counter > max_attempts

\* `return slug`
ReturnedSlug_Base(l) == l.base_slug
ReturnedSlug(l) == l.slug

NoLocals == [base_slug |-> "", slug |-> "", timestamp |-> "", counter |-> 0,
             is_obj |-> FALSE]
NoArgs == [name |-> "", existing_obj |-> NoObj, max_attempts |-> 0,
           add_timestamp |-> FALSE]

Query(slug, found) == [slug |-> slug, found |-> found]

\* generate_slug from its entry to its first query (or to an earlier exit).
Begin(w, name, existing_obj, max_attempts, add_timestamp, now) ==
    /\ spc[w] = "idle"
    /\ args' = [args EXCEPT ![w] =
                  [name |-> name, existing_obj |-> existing_obj,
                   max_attempts |-> max_attempts,
                   add_timestamp |-> add_timestamp]]
    /\ IF max_attempts < 1
       THEN /\ spc' = [spc EXCEPT ![w] = "config_error"]
            /\ UNCHANGED <<loc, queries, seen, ret>>
       ELSE LET base_slug == slugify(name)
                timestamp == IF add_timestamp THEN now ELSE ""
                slug == FirstCandidate(base_slug, timestamp)
                l == [base_slug |-> base_slug, slug |-> slug,
                      timestamp |-> timestamp, counter |-> 1, is_obj |-> FALSE]
            IN IF ShortCircuits(existing_obj, name)
               THEN /\ spc' = [spc EXCEPT ![w] = "returned"]
                    /\ ret' = [ret EXCEPT ![w] = existing_obj.slug]
                    /\ loc' = [loc EXCEPT ![w] = l]
                    /\ UNCHANGED <<queries, seen>>
               ELSE /\ spc' = [spc EXCEPT ![w] = "loop"]
                    /\ loc' = [loc EXCEPT ![w] =
                                 [l EXCEPT !.is_obj = IsObj(store, slug)]]
                    /\ queries' = [queries EXCEPT ![w] =
                                     <<Query(slug, IsObj(store, slug))>>]
                    /\ seen' = [seen EXCEPT ![w] = store]
                    /\ ret' = ret
    /\ UNCHANGED <<store, retryVars>>

\* One iteration of `while is_obj:`, or the ValueError that ends it.
Iterate(w) ==
    /\ spc[w] = "loop"
    /\ loc[w].is_obj
    /\ IF Exhausted(loc[w].counter, args[w].max_attempts)
       THEN /\ spc' = [spc EXCEPT ![w] = "exhausted"]
            /\ UNCHANGED <<loc, queries, seen>>
       ELSE \E random_part \in RandomParts(SuffixLength) :
              LET suffix == generate_random_string(random_part, "")
                  slug == Candidate(loc[w].base_slug, suffix, loc[w].timestamp,
                                    args[w].add_timestamp)
              IN /\ loc' = [loc EXCEPT ![w].slug = slug,
                                       ![w].is_obj = IsObj(store, slug),
                                       ![w].counter = @ + 1]
                 /\ queries' = [queries EXCEPT ![w] =
                                  Append(@, Query(slug, IsObj(store, slug)))]
                 /\ seen' = [seen EXCEPT ![w] = store]
                 /\ spc' = spc
    /\ UNCHANGED <<store, args, ret, retryVars>>

\* The loop condition is false: `return slug`.
Return(w) ==
    /\ spc[w] = "loop"
    /\ ~loc[w].is_obj
    /\ spc' = [spc EXCEPT ![w] = "returned"]
    /\ ret' = [ret EXCEPT ![w] = ReturnedSlug(loc[w])]
    /\ UNCHANGED <<store, args, loc, queries, seen, retryVars>>

\* The record a writer's caller writes with the slug it was returned: the
\* entity it passed as existing_obj, renamed, or a new record.
NewId(w) == IF w = "w1" THEN 11 ELSE 12
Written(st, w, a, slug) ==
    IF a.existing_obj = NoObj
    THEN st \cup {[id |-> NewId(w), name |-> a.name, slug |-> slug]}
    ELSE {r \in st : r.id # a.existing_obj.id}
           \cup {[id |-> a.existing_obj.id, name |-> a.name, slug |-> slug]}

\* The caller persists the chosen slug (generate_slug itself writes nothing).
Persist(w) ==
    /\ spc[w] = "returned"
    /\ store' = Written(store, w, args[w], ret[w])
    /\ spc' = [spc EXCEPT ![w] = "persisted"]
    /\ UNCHANGED <<args, loc, queries, seen, ret, retryVars>>

\* The table before any writer starts: no records, or the records left by
\* earlier creations of "Hello, World!" and their collisions.
Seed(i) ==
    LET base == slugify("Hello, World!")
        ts == CHOOSE t \in Clock : TRUE
        slugs == <<base,
                   Candidate(base, "aZ3k9", "", FALSE),
                   Candidate(base, "Qx07b", "", FALSE),
                   Candidate(base, "aZ3k9", ts, TRUE),
                   Candidate(base, "Qx07b", ts, TRUE)>>
    IN [id |-> i, name |-> "Hello, World!", slug |-> slugs[i]]
InitialStores == {{Seed(i) : i \in 1..k} : k \in 0..5}

\* The entities a caller may pass as existing_obj.
Entities(st) == {r \in st : r.id = 2}

SlugStart ==
    /\ store \in InitialStores
    /\ spc = [w \in Writers |-> "idle"]
    /\ args = [w \in Writers |-> NoArgs]
    /\ loc = [w \in Writers |-> NoLocals]
    /\ queries = [w \in Writers |-> <<>>]
    /\ seen = [w \in Writers |-> {}]
    /\ ret = [w \in Writers |-> NoSlug]

SlugNext ==
    \/ \E w \in Writers, name \in Names,
          existing_obj \in {NoObj} \cup Entities(store),
          max_attempts \in 0..MaxAttemptsArg, add_timestamp \in BOOLEAN,
          now \in Clock :
         Begin(w, name, existing_obj, max_attempts, add_timestamp, now)
    \/ \E w \in Writers : Iterate(w)
    \/ \E w \in Writers : Return(w)
    \/ \E w \in Writers : Persist(w)

(***************************************************************************)
(*                            SPECIFICATIONS                               *)
(***************************************************************************)

\* No writer, empty table: the state of the table while only retry is exercised.
SlugIdle ==
    /\ store = {}
    /\ spc = [w \in Writers |-> "idle"]
    /\ args = [w \in Writers |-> NoArgs]
    /\ loc = [w \in Writers |-> NoLocals]
    /\ queries = [w \in Writers |-> <<>>]
    /\ seen = [w \in Writers |-> {}]
    /\ ret = [w \in Writers |-> NoSlug]

\* The retry decorator with logging handlers that never raise.
RetryInit == RetryStart /\ loggerRaises = FALSE /\ SlugIdle
RetrySpec == RetryInit /\ [][RetryNext]_vars

\* The retry decorator with logging handlers that may or may not raise.
RetryLogInit == RetryStart /\ loggerRaises \in BOOLEAN /\ SlugIdle
RetryLogSpec == RetryLogInit /\ [][RetryNext]_vars

\* Two writers calling generate_slug against one table.
SlugInit == SlugStart /\ RetryStart /\ loggerRaises = FALSE
SlugSpec == SlugInit /\ [][SlugNext]_vars


(***************************************************************************)
(*                     PROPERTIES OF THE RETRY DECORATOR                   *)
(***************************************************************************)

\* The invocations and sleeps of the current call, in order.
OpSleep(h) == SelectSeq(h, LAMBDA e : e.ev \in {"op", "sleep"})
Sleeps(h) == SelectSeq(h, LAMBDA e : e.ev = "sleep")

\* n invocations following func, the first n - 1 of them failing, with one
\* sleep of `delay` after each failure: op, sleep, op, ..., sleep, op.
AlternatingTrace(n) ==
    [i \in 1..(2 * n - 1) |->
        IF i % 2 = 1
        THEN Event("op", (i + 1) \div 2, script[(i + 1) \div 2], 0)
        ELSE Event("sleep", i \div 2, "sleep", delay)]

Wrapped == rpc \notin {"new", "config_error"}
AlwaysRaises == \A i \in DOMAIN script : script[i] \in ErrorClasses
FirstSuccessAt(k) ==
    /\ k \in DOMAIN script
    /\ script[k] = "ok"
    /\ \A i \in 1..(k - 1) : script[i] # "ok"

\* C1: when the operation raises on every attempt, a call of the wrapper
\* invokes it exactly `retries` times, sleeps exactly `retries - 1` times,
\* each for `delay` and each between two attempts (none after the last), and
\* raises the error of the last attempt.
C1_RetryBounded ==
    (Wrapped /\ AlwaysRaises) =>
        /\ rpc # "returned"
        /\ invoked <= retries
        /\ Len(Sleeps(hist)) <= retries - 1
        /\ rpc = "raised" =>
              /\ invoked = retries
              /\ OpSleep(hist) = AlternatingTrace(retries)
              /\ Len(Sleeps(hist)) = retries - 1
              /\ result = Raised(OpError(script[retries], retries))

\* A call that failed three times with errors of different classes and raised.
C1_Witness ==
    /\ rpc = "raised"
    /\ AlwaysRaises
    /\ retries = 3
    /\ invoked = 3
    /\ script[1] # script[3]
    /\ script[2] # script[3]

\* C2: when the operation raises on attempts 1..k-1 and succeeds on attempt
\* k <= retries, the call returns the result of attempt k after exactly k
\* invocations and k - 1 sleeps, and nothing follows the success.
C2_RetryEventualSuccess ==
    \A k \in 1..retries :
        (Wrapped /\ FirstSuccessAt(k)) =>
            /\ rpc # "raised"
            /\ invoked <= k
            /\ Len(Sleeps(hist)) <= k - 1
            /\ rpc = "returned" =>
                  /\ result = OpValue(k)
                  /\ invoked = k
                  /\ OpSleep(hist) = AlternatingTrace(k)
                  /\ Len(Sleeps(hist)) = k - 1
                  /\ hist[Len(hist)] = Event("op", k, "ok", 0)

\* A call that succeeded on its third attempt.
C2_Witness ==
    /\ rpc = "returned"
    /\ FirstSuccessAt(3)
    /\ invoked = 3

\* C9: retry(retries, delay) fails at construction exactly when retries < 1
\* or delay <= 0; then nothing is decorated, no wrapper can be called and the
\* operation is never invoked.
C9_ConfigValidation ==
    /\ rpc = "config_error" =>
          /\ retries < 1 \/ delay <= 0
          /\ invoked = 0
          /\ hist = <<>>
          /\ ~ENABLED Invoke
          /\ ~ENABLED Attempt
    /\ Wrapped => (retries >= 1 /\ delay > 0)

\* A construction refused for its delay alone.
C9_Witness ==
    /\ rpc = "config_error"
    /\ retries >= 1
    /\ delay = 0

\* C10: an error raised by the operation is handled the same way whatever its
\* class: it becomes last_error, and it is followed by a sleep of `delay` and
\* another attempt exactly when its attempt was not the last; only the error
\* of the last attempt ends the call.
C10_AllErrorsRetriedAlike ==
    LET t == OpSleep(hist)
    IN \A i \in 1..Len(t) :
         (t[i].ev = "op" /\ t[i].what \in ErrorClasses) =>
            LET a == t[i].at
            IN /\ (i = Len(t)) =>
                     \/ /\ rpc = "failed"
                        /\ last_error = OpError(t[i].what, invoked)
                     \/ /\ rpc = "raised"
                        /\ a = retries
                        /\ result = Raised(OpError(t[i].what, invoked))
               /\ (i < Len(t)) =>
                     /\ a < retries
                     /\ t[i + 1] = Event("sleep", a, "sleep", delay)
               /\ (i + 1 = Len(t)) => (rpc = "try" /\ attempt = a + 1)
               /\ (i + 1 < Len(t)) =>
                     (t[i + 2].ev = "op" /\ t[i + 2].at = a + 1)

\* A call that met a backing-store error and another error, and raised.
C10_Witness ==
    /\ rpc = "raised"
    /\ invoked = 3
    /\ script[1] \in DbErrorClasses
    /\ script[2] = "Exception"
    /\ script[3] \in DbErrorClasses

\* What a call does when every logging call succeeds: it invokes the
\* operation up to its first success, or `retries` times, and returns that
\* success or raises the last error.
InvocationsWhenLoggingSucceeds ==
    IF \E k \in DOMAIN script : script[k] = "ok"
    THEN CHOOSE k \in DOMAIN script : FirstSuccessAt(k)
    ELSE retries
ResultWhenLoggingSucceeds ==
    IF \E k \in DOMAIN script : script[k] = "ok"
    THEN OpValue(InvocationsWhenLoggingSucceeds)
    ELSE Raised(OpError(script[retries], retries))

\* C8: a logging call that raises changes neither how often the operation is
\* invoked nor what the call returns or raises.
C8_LoggerFailureHarmless ==
    rpc \in {"returned", "raised"} =>
        /\ invoked = InvocationsWhenLoggingSucceeds
        /\ result = ResultWhenLoggingSucceeds


(***************************************************************************)
(*                       PROPERTIES OF GENERATE_SLUG                       *)
(***************************************************************************)

Done(w) == spc[w] \in {"returned", "persisted"}
SameName(w) ==
    /\ args[w].existing_obj # NoObj
    /\ args[w].existing_obj.name = args[w].name
AllTaken(q) == \A i \in 1..Len(q) : q[i].found

\* C3: when existing_obj is given and its name equals `name` (and
\* max_attempts >= 1), the call returns existing_obj.slug unchanged and never
\* queries the oracle.
C3_SlugIdempotentRename ==
    \A w \in Writers :
        (spc[w] # "idle" /\ args[w].max_attempts >= 1 /\ SameName(w)) =>
            /\ Done(w)
            /\ ret[w] = args[w].existing_obj.slug
            /\ queries[w] = <<>>

\* A same-name call on an entity whose slug is not the slug of its name.
C3_Witness ==
    \E w \in Writers :
        /\ spc[w] = "returned"
        /\ SameName(w)
        /\ ret[w] # slugify(args[w].name)

\* C4: without the short-circuit, when the first j candidates are taken and
\* candidate j + 1 is absent (0 <= j <= max_attempts), the call returns
\* candidate j + 1 after exactly j + 1 queries; the first candidate is
\* base_slug itself, with no suffix and no timestamp.
C4_SlugCollisionResolution ==
    \A w \in Writers :
        LET q == queries[w]
            n == Len(q)
        IN /\ n >= 1 => q[1].slug = slugify(args[w].name)
           /\ spc[w] = "exhausted" => n > args[w].max_attempts
           /\ \A i \in 1..n :
                ~q[i].found =>
                   /\ i = n
                   /\ i <= args[w].max_attempts + 1
                   /\ \A j \in 1..(i - 1) : q[j].found
                   /\ spc[w] \in {"loop", "returned", "persisted"}
                   /\ spc[w] = "loop" =>
                         (~loc[w].is_obj /\ loc[w].slug = q[i].slug)
                   /\ Done(w) => ret[w] = q[i].slug

\* A call that found two candidates taken and returned the third.
C4_Witness ==
    \E w \in Writers :
        /\ spc[w] = "returned"
        /\ Len(queries[w]) = 3
        /\ queries[w][1].found
        /\ queries[w][2].found
        /\ ret[w] = queries[w][3].slug

\* C5: when every candidate is taken, the call fails with the slug-exhausted
\* error after exactly max_attempts iterations of the collision loop, that is
\* after max_attempts + 1 queries; it returns no slug and never queries more.
C5_SlugExhaustion ==
    \A w \in Writers :
        LET q == queries[w]
            m == args[w].max_attempts
        IN /\ Len(q) <= m + 1
           /\ spc[w] = "exhausted" =>
                 /\ Len(q) = m + 1
                 /\ AllTaken(q)
                 /\ loc[w].counter - 1 = m
                 /\ ret[w] = NoSlug
           /\ (q # <<>> /\ AllTaken(q)) =>
                 /\ spc[w] \in {"loop", "exhausted"}
                 /\ ret[w] = NoSlug
           /\ (Len(q) = m + 1 /\ AllTaken(q) /\ spc[w] = "loop") =>
                 /\ loc[w].is_obj
                 /\ Exhausted(loc[w].counter, m)

\* A call with max_attempts = 2 that gave up.
C5_Witness ==
    \E w \in Writers :
        /\ spc[w] = "exhausted"
        /\ args[w].max_attempts = 2
        /\ Len(queries[w]) = 3

WasFoundAbsent(w, slug) ==
    \E i \in 1..Len(queries[w]) : queries[w][i] = Query(slug, FALSE)

\* C6 as claimed: every slug a call returns, on every return path, was found
\* absent by a query for that very string during the call.
C6_ReturnedSlugWasChecked ==
    \A w \in Writers : Done(w) => WasFoundAbsent(w, ret[w])

\* C6 as amended: every slug a call returns, other than existing_obj.slug
\* returned by the same-name short-circuit, was found absent by a query for
\* that very string during the call.
C6_ReturnedSlugWasCheckedUnlessSameName ==
    \A w \in Writers :
        (Done(w) /\ ~SameName(w)) =>
            /\ WasFoundAbsent(w, ret[w])
            /\ queries[w][Len(queries[w])] = Query(ret[w], FALSE)

\* A call that returned a suffixed candidate after a collision.
C6_Witness ==
    \E w \in Writers :
        /\ spc[w] = "returned"
        /\ ~SameName(w)
        /\ Len(queries[w]) >= 2
        /\ ret[w] # slugify(args[w].name)

SlugsUnique(st) == \A r1, r2 \in st : r1.slug = r2.slug => r1 = r2

\* C7 as claimed: with writers running generate_slug concurrently and each
\* persisting the slug it was returned, no two records ever hold the same
\* slug.
C7_NoTwoRecordsShareSlug == SlugsUnique(store)

\* C7 as amended: a writer whose call checked the oracle, and whose write
\* finds the table as it was at the call's last check, writes a record that
\* alone holds its slug; nothing is guaranteed when another write falls
\* between the check and the write.
C7_NoDuplicateWithoutInterveningWrite ==
    [][\A w \in Writers :
         (/\ spc[w] = "returned"
          /\ spc'[w] = "persisted"
          /\ queries[w] # <<>>
          /\ seen[w] = store)
         => /\ \A r \in store' :
                 r.slug = ret[w] =>
                    r = [id |-> IF args[w].existing_obj = NoObj THEN NewId(w)
                                ELSE args[w].existing_obj.id,
                         name |-> args[w].name, slug |-> ret[w]]
            /\ SlugsUnique(store) => SlugsUnique(store')]_vars

\* Both writers are at work, and one has written into a table unchanged since
\* its last check.
C7_Witness ==
    \E w \in Writers :
        /\ spc[w] = "persisted"
        /\ queries[w] # <<>>
        /\ store = Written(seen[w], w, args[w], ret[w])
        /\ \A v \in Writers : spc[v] # "idle"

=============================================================================
